---- MODULE Spec2Model ----
(***************************************************************************)
(* Render-request orchestration of agentcad-forge.                         *)
(*                                                                         *)
(* Two subsystems are modelled, each with its own specification:           *)
(*   WorkerSpec : src/src/lib/openscad.worker.ts, the web worker that owns *)
(*                the engine and serialises 'init' / 'render' / 'validate' *)
(*                messages through the opQueue promise chain.              *)
(*   CtlSpec    : src/unnamed/part_010 (the useOpenScad hook) on top of    *)
(*                the main-thread engine handle of src/unnamed/part_002.   *)
(* The engine itself (createOpenSCAD, callMain, its virtual filesystem) is *)
(* external: what it returns, throws, prints and writes is chosen          *)
(* nondeterministically.                                                   *)
(***************************************************************************)
EXTENDS Integers, Sequences, FiniteSets, TLC

\* ------------------------------------------------------------------ bounds
\* Number of messages delivered to the worker in one run.
MaxMsgs == 3
\* Number of lines the engine prints on its error channel during one call.
MaxLines == 1
\* Number of compiles the controller submits to the engine handle in one run.
MaxCompiles == 2
\* Number of validations the controller submits to the engine handle in one run.
MaxValidates == 1
\* Number of calls of the engine handle that are suspended at a time.
MaxPending == 2
\* Longest text of brackets handed to the linter.
MaxText == 4
\* Most pieces (a quote, an escaped backslash, a bracket, a comment
\* delimiter, a line break) of a text with strings and comments.
MaxTokens == 6
\* Most lines between 'solid' and 'endsolid' of a text artifact.
MaxStlLines == 5
\* Largest triangle count of a binary artifact.
MaxTris == 2

\* ------------------------------------------------------------------ state
VARIABLES
  \* ---- worker (openscad.worker.ts)
  openscadRaw,       \* TRUE once the engine instance is stored (line 5, 34)
  initPromise,       \* "null" | "pending" | "resolved" | "rejected" (line 6)
  opQueue,           \* operations chained on the opQueue promise, not yet started
  opQueueTail,       \* how the last settled link of the chain settled
  running,           \* operations started and not yet settled
  currentStderr,     \* the global stderr collector (line 14)
  currentRequestId,  \* id of the request being executed, 0 for null (line 15)
  wfs,               \* the engine's virtual filesystem as the worker uses it
  posted,            \* 'ready', 'init-error' and result messages posted so far, in
                     \* posting order, without their logs
  lastPosted,        \* every message the most recent step posted, complete
  received,          \* type of every message received so far; its index is its id
  startedIds,        \* ids of the operations in the order they were started
  skipped,           \* operations the chain dropped without running them
  staleAtCall,       \* TRUE if a render's callMain found an /output.stl of an earlier request
  factoryCalls,      \* number of times createOpenSCAD was invoked (line 21)
  validations        \* the last two validations, kept when validations alone are run:
                     \* what the engine did and what was posted

\* ---- main-thread engine handle (part_002) and controller (part_010)
VARIABLES
  mounted,           \* TRUE once the hook's mount effect has run (part_010 line 29-36)
  svcFactoryCalls,   \* number of times createOpenSCAD was invoked (part_002 line 206)
  validated,         \* number of validations submitted so far
  lastRendered,      \* text of the most recent call of render, NoTimer before the first
  openscadInstance,  \* TRUE once the instance is stored (part_002 line 184, 216)
  svcInitPromise,    \* initPromise of part_002: "null" | "pending" | "resolved" | "rejected"
  loadingProgress,   \* "idle" | "loading" | "ready" | "error" (part_002 line 186)
  sfs,               \* the engine's virtual filesystem as the handle uses it
  inflight,          \* calls of the handle suspended in await initOpenSCAD(), oldest first
  results,           \* settled calls whose caller has not yet continued, oldest first
  mesh,              \* useState mesh: 0 for null, else the number of the compile that made it
  isRendering,       \* useState isRendering
  error,             \* useState error: NoError for null
  lintErrors,        \* useState lintErrors
  logs,              \* useState logs
  timeoutRef,        \* the pending debounce timer: NoTimer, or the text it will render
  lastCodeRef,       \* useRef lastCodeRef
  issued,            \* number of compiles submitted so far
  superseded,        \* compiles that were still in flight when a newer one was submitted
  winOpen,           \* TRUE while less than debounceMs has passed since the last debounced call
  winLast,           \* text of the last debounced call
  winCompiles        \* texts the timer submitted for the current window

\* ---- the engine sections of the handle, statement by statement (part_002)
VARIABLES
  sections,          \* the calls of the handle that are inside their engine section:
                     \* from the swap of printErr to the end of the function
  printErr           \* the call whose closure is installed as rawInstance.printErr

cvars == <<mounted, svcFactoryCalls, validated, lastRendered, openscadInstance,
           svcInitPromise, loadingProgress, sfs, inflight, results, mesh, isRendering, error, lintErrors, logs, timeoutRef, lastCodeRef, issued, superseded,
           winOpen, winLast, winCompiles>>

wvars == <<openscadRaw, initPromise, opQueue, opQueueTail, running, currentStderr,
           currentRequestId, wfs, posted, lastPosted, received, startedIds, skipped,
           staleAtCall, factoryCalls, validations>>

svars == <<sections, printErr>>

\* ---- one call of the linter (part_003)
VARIABLES
  lintInput,         \* the text lintOpenSCAD is called with
  lintOut            \* called: the call has returned; errors: LintResult.errors

\* ---- one call of the mesh decoder (stl-parser.ts)
VARIABLES
  stlInput,          \* the buffer parseSTL is called with
  stlOut             \* what the call returned, or that it threw

pvars == <<lintInput, lintOut, stlInput, stlOut>>

\* ---- the loading state of the hook (part_010 line 21, 28-55)
VARIABLES
  isLoading,         \* useState isLoading
  interval           \* the status poll: "none" before the mount effect, "set", "cleared"

hvars == <<isLoading, interval>>

\* ---- what the hook's state was when a compile was issued
VARIABLES
  held               \* held[n]: the mesh in the hook's state when compile n was
                     \* submitted; kept when forced renders alone are run

gvars == <<held>>

\* ---- the timers of the browser set by the hook (part_010 line 126-142)
VARIABLES
  timers             \* the timers set with setTimeout that have neither fired nor been
                     \* cleared: code is the text the timer will render, ref tells
                     \* whether timeoutRef.current holds its id; kept when the timers
                     \* are run one by one

tvars == <<timers>>

vars == <<wvars, cvars, svars, pvars, hvars, gvars, tvars>>

\* ------------------------------------------------------------------ engine
\* What callMain does: returns, or throws an ExitStatus, or throws another error.
Thrown == {"ret", "exit0", "exit1", "abort", "other"}
\* The artifact callMain leaves in /output.stl.
\*   none: no file; empty: zero bytes; corrupt: bytes the decoder throws on;
\*   nogeom: decodes to a mesh without vertices; good: decodes to >= 1 triangle.
ArtKinds == {"none", "empty", "corrupt", "nogeom", "good"}
\* A line on the error channel: emitted during request req; an "error" line
\* contains ERROR/error, a "warning" line does not.
LineKinds == {"error", "warning"}
Emissions == UNION {[1..n -> LineKinds] : n \in 0..MaxLines}

Absent == [kind |-> "none", by |-> 0]

\* Message types a worker receives (line 42-45).
MessageType == {"init", "render", "validate"}

Msg(t, i, m, l, x) == [type |-> t, id |-> i, mesh |-> m, logs |-> l, info |-> x]

Tag(lines, id) == [k \in 1..Len(lines) |-> [req |-> id, kind |-> lines[k]]]

\* printErr (line 26-30): every line is pushed on currentStderr and posted
\* as a 'stderr' message tagged with currentRequestId.
StderrPosts(lines, rid) ==
  [k \in 1..Len(lines) |-> Msg("stderr", rid, 0, <<>>, lines[k])]

\* The part of a batch of messages that is kept in posted.
KeptTypes == {"ready", "init-error", "render-result", "render-error", "validate-result"}
IsKept(m) == m.type \in KeptTypes
Brief(ms) ==
  LET r == SelectSeq(ms, IsKept) IN [k \in 1..Len(r) |-> [r[k] EXCEPT !.logs = <<>>]]

HasErrorLine(ls) == \E k \in 1..Len(ls) : ls[k].kind = "error"

\* ------------------------------------------------------------------ linter
\* Source text is a sequence of characters. The texts of the model are
\* written over the characters ( ) [ ] { } / * " \ newline space a ; = .
\* None of the primitive names of the second statement pattern (cube,
\* sphere, ... line 146 of part_003) can be spelled with them, so that
\* pattern never matches and only the first one is modelled.
NL == "\n"
WhiteSpace == {" ", NL}
WordChars == {"a"}
Openers == {"(", "[", "{"}
Closers == {")", "]", "}"}
\* The mutant of C38: two entries of the table of closers are exchanged.
closingBracketsSwapped(c) == IF c = ")" THEN "(" ELSE IF c = "]" THEN "{" ELSE "["
\* matchingBrackets and closingBrackets (part_003 line 41-50).
matchingBrackets(c) == IF c = "(" THEN ")" ELSE IF c = "[" THEN "]" ELSE "}"
closingBrackets(c) == IF c = ")" THEN "(" ELSE IF c = "]" THEN "[" ELSE "{"

\* The mutant of C23: no text counts as blank.
IsBlankNever(code) == FALSE
\* String.prototype.trim() yields the empty string.
IsBlank(code) == \A k \in 1..Len(code) : code[k] \in WhiteSpace

\* code.split('\n')
RECURSIVE SplitFrom(_, _, _)
SplitFrom(code, k, cur) ==
  IF k > Len(code) THEN <<cur>>
  ELSE IF code[k] = NL THEN <<cur>> \o SplitFrom(code, k + 1, <<>>)
  ELSE SplitFrom(code, k + 1, Append(cur, code[k]))
SplitLines(code) == SplitFrom(code, 1, <<>>)

LintErr(l, c, m, s) == [line |-> l, column |-> c, message |-> m, severity |-> s]

\* The character loop of one line (part_003 line 59-126). st holds
\* inBlockComment (bc), inString (str), bracketStack and errors.
RECURSIVE ScanCols(_, _, _, _)
ScanCols(line, ln, i, st) ==
  IF i > Len(line) THEN st
  ELSE
    LET ch == line[i]
        nx == IF i < Len(line) THEN line[i + 1] ELSE "undefined"
    IN  IF ~st.str /\ ch = "/" /\ nx = "*"
          THEN ScanCols(line, ln, i + 2, [st EXCEPT !.bc = TRUE])
        ELSE IF st.bc /\ ch = "*" /\ nx = "/"
          THEN ScanCols(line, ln, i + 2, [st EXCEPT !.bc = FALSE])
        ELSE IF st.bc THEN ScanCols(line, ln, i + 1, st)
        ELSE IF ~st.str /\ ch = "/" /\ nx = "/" THEN st
        ELSE IF ch = "\"" /\ (i = 1 \/ line[i - 1] # "\\")
          THEN ScanCols(line, ln, i + 1, [st EXCEPT !.str = ~st.str])
        ELSE IF st.str THEN ScanCols(line, ln, i + 1, st)
        ELSE IF ch \in Openers
          THEN ScanCols(line, ln, i + 1,
                 [st EXCEPT !.stack = Append(st.stack, [char |-> ch, line |-> ln, col |-> i])])
        ELSE IF ch \in Closers
          THEN LET n    == Len(st.stack)
                   rest == IF n = 0 THEN <<>> ELSE SubSeq(st.stack, 1, n - 1)
                   new  == IF n = 0
                             THEN <<LintErr(ln, i, <<"Unexpected closing", ch>>, "error")>>
                           ELSE IF st.stack[n].char # closingBrackets(ch)
                             THEN <<LintErr(ln, i, <<"Mismatched brackets", st.stack[n].char,
                                                     st.stack[n].line, ch>>, "error")>>
                           ELSE <<>>
               IN  ScanCols(line, ln, i + 1,
                     [st EXCEPT !.stack = rest, !.errors = st.errors \o new])
        ELSE ScanCols(line, ln, i + 1, st)

\* line.trim() of one line.
LineBlank(line) == \A k \in 1..Len(line) : line[k] = " "
FirstNonSpace(line) == CHOOSE k \in 1..Len(line) : line[k] # " " /\ \A j \in 1..(k - 1) : line[j] = " "
LastNonSpace(line) == CHOOSE k \in 1..Len(line) : line[k] # " " /\ \A j \in (k + 1)..Len(line) : line[j] = " "
StartsWithLineComment(line) ==
  LET f == FirstNonSpace(line) IN f < Len(line) /\ line[f] = "/" /\ line[f + 1] = "/"

\* /^\s*\w+\s*=\s*.+[^;{}\s]\s*$/ (part_003 line 145): blanks, a word,
\* blanks, '=', then at least one character and a last non-blank character
\* other than ; { }.
AssignmentPattern(line) ==
  \E e \in 1..Len(line) :
    /\ line[e] = "="
    /\ \E a, b \in 1..(e - 1) :
         /\ a <= b
         /\ \A k \in 1..(a - 1) : line[k] = " "
         /\ \A k \in a..b : line[k] \in WordChars
         /\ \A k \in (b + 1)..(e - 1) : line[k] = " "
    /\ \E q \in (e + 2)..Len(line) :
         /\ line[q] \notin {";", "{", "}", " "}
         /\ \A k \in (q + 1)..Len(line) : line[k] = " "

\* The continuation test (part_003 line 152-159): the next non-blank line
\* starts with an operator or a dot.
RECURSIVE IsContinuation(_, _)
IsContinuation(lines, n) ==
  IF n > Len(lines) THEN FALSE
  ELSE IF LineBlank(lines[n]) THEN IsContinuation(lines, n + 1)
  ELSE lines[n][FirstNonSpace(lines[n])] \in {"+", "-", "*", "/", "?", ":", "."}

\* The per-line tail of the loop (part_003 line 128-171).
AfterLine(lines, ln, st) ==
  LET line == lines[ln]
      s1 == IF st.str
              THEN [st EXCEPT !.errors = Append(st.errors, LintErr(ln, 1, <<"Unclosed string literal">>, "error")),
                              !.str = FALSE]
              ELSE st
      warn == /\ ~LineBlank(line)
              /\ ~StartsWithLineComment(line)
              /\ AssignmentPattern(line)
              /\ \A k \in 1..Len(line) : line[k] # "{"
              /\ ~IsContinuation(lines, ln + 1)
  IN  IF warn
        THEN [s1 EXCEPT !.errors = Append(s1.errors,
                LintErr(ln, Len(line), <<"Statement may be missing a semicolon">>, "warning"))]
        ELSE s1

RECURSIVE ScanLines(_, _, _)
ScanLines(lines, ln, st) ==
  IF ln > Len(lines) THEN st
  ELSE ScanLines(lines, ln + 1, AfterLine(lines, ln, ScanCols(lines[ln], ln, 1, st)))

\* lintOpenSCAD (part_003 line 35-198): the list of diagnostics.
lintOpenSCAD(code) ==
  LET lines == SplitLines(code)
      st == ScanLines(lines, 1, [bc |-> FALSE, str |-> FALSE, stack |-> <<>>, errors |-> <<>>])
      unclosed == [k \in 1..Len(st.stack) |->
                    LintErr(st.stack[k].line, st.stack[k].col,
                            <<"Unclosed", st.stack[k].char, matchingBrackets(st.stack[k].char)>>, "error")]
      comment == IF st.bc THEN <<LintErr(Len(lines), 1, <<"Unclosed block comment (missing */)">>, "error")>>
                 ELSE <<>>
  IN  st.errors \o unclosed \o comment

\* ---- the linter called on its own
SeqsUpTo(S, n) == UNION {[1..k -> S] : k \in 0..n}

\* Texts of brackets, a word character and line breaks.
BracketAlphabet == Openers \cup Closers \cup {"a", NL}
BracketTexts(n) == SeqsUpTo(BracketAlphabet, n)

\* Texts made of quotes, escaped backslashes, a bracket, comment delimiters
\* and line breaks.
Tokens == { <<"\"">>, <<"\\", "\\">>, <<"(">>, <<"/", "/">>, <<"/", "*">>, <<"*", "/">>,
            <<NL>> }
RECURSIVE Flatten(_)
Flatten(ts) == IF ts = <<>> THEN <<>> ELSE Head(ts) \o Flatten(Tail(ts))
QuotedTexts(n) == {Flatten(ts) : ts \in SeqsUpTo(Tokens, n)}

NotCalled == [called |-> FALSE, errors |-> <<>>]

LintIdle ==
  /\ lintInput = <<>>
  /\ lintOut = NotCalled

\* ------------------------------------------------------------------ mesh decoder
\* A buffer handed to parseSTL: len is its byteLength, solid tells whether
\* its first bytes spell 'solid', count is the little-endian uint32 at
\* offset 80 (read only when len >= 84), lines are the kinds of the lines
\* the text decoder sees between the first and the last one. fmt is the
\* format the artifact was written in.
StlLineKinds == {"facet", "vertex", "other"}
\* Bytes a line of a text artifact takes at least: 'facet normal' and
\* 'vertex' with three one-digit numbers, the shortest other line
\* ('endloop'), each with its line break.
LineBytes(kind) == IF kind = "facet" THEN 19 ELSE IF kind = "vertex" THEN 13 ELSE 8
RECURSIVE BodyBytes(_)
BodyBytes(ls) == IF ls = <<>> THEN 0 ELSE LineBytes(Head(ls)) + BodyBytes(Tail(ls))
\* With 'solid' and 'endsolid' and their line breaks.
MinTextBytes(ls) == 6 + BodyBytes(ls) + 9
\* Byte lengths of text artifacts: below the 80 bytes of a binary header,
\* between 80 and 83, and above.
TextLens == {45, 82, 120, 300}
\* The uint32 that four bytes of text make: four line feeds, four spaces.
TextWords == {168430090, 538976288}

TextBuffer(ls, n, w) == [fmt |-> "text", len |-> n, solid |-> TRUE, count |-> w, lines |-> ls]
TextBuffers(k) ==
  {b \in {TextBuffer(ls, n, w) : ls \in SeqsUpTo(StlLineKinds, k), n \in TextLens,
                                 w \in TextWords} :
     MinTextBytes(b.lines) <= b.len}

\* A binary artifact of t triangles: 80 bytes of header, the count, 50
\* bytes per triangle; x bytes are missing (x < 0) or follow (x > 0).
BinaryBuffer(t, sol, x) ==
  [fmt |-> "binary", len |-> 84 + 50 * t + x, solid |-> sol, count |-> t, lines |-> <<>>]
BinarySlack == {0 - 30, 0, 20}
BinaryBuffers(k) ==
  {BinaryBuffer(t, sol, x) : t \in 0..k, sol \in BOOLEAN, x \in BinarySlack}

NoBuffer == [fmt |-> "none", len |-> 0, solid |-> FALSE, count |-> 0, lines |-> <<>>]
Throws == [status |-> "throws", path |-> "none", vertices |-> 0, normals |-> 0]
NotDecoded == [status |-> "not called", path |-> "none", vertices |-> 0, normals |-> 0]
\* { vertices, normals }: the lengths of the two arrays, and the decoding
\* path that made them.
STLMesh(path, v, n) == [status |-> "mesh", path |-> path, vertices |-> v, normals |-> n]

\* isBinarySTL (line 17-24) for a buffer of at least 84 bytes. A count
\* above the byte length is far from it, whatever 50 * count is.
isBinarySTL(buf) ==
  IF buf.count > buf.len THEN FALSE
  ELSE LET d == buf.len - (80 + 4 + buf.count * 50)
       IN  (IF d < 0 THEN 0 - d ELSE d) < 10

\* parseBinarySTL (line 26-59): getUint32(80) and the reads of the loop
\* throw a RangeError beyond the end of the buffer; the last two bytes of a
\* triangle are skipped, not read.
parseBinarySTL(buf) ==
  IF buf.len < 84 THEN Throws
  ELSE IF buf.count > buf.len THEN Throws
  ELSE IF buf.count > 0 /\ 84 + 50 * buf.count - 2 > buf.len THEN Throws
  ELSE STLMesh("binary", buf.count * 9, buf.count * 9)

IsVertexLine(l) == l = "vertex"
\* parseASCIISTL (line 61-94): three numbers are pushed on vertices and
\* three on normals for every line that starts with 'vertex'.
parseASCIISTL(buf) ==
  LET v == Len(SelectSeq(buf.lines, IsVertexLine))
  IN  STLMesh("ascii", 3 * v, 3 * v)

\* parseSTL (line 3-15): new Uint8Array(buffer, 0, 80) throws on a buffer
\* of less than 80 bytes, getUint32(80) in isBinarySTL on one of less than 84.
parseSTL(buf) ==
  IF buf.len < 80 THEN Throws
  ELSE IF buf.solid
    THEN IF buf.len < 84 THEN Throws
         ELSE IF ~isBinarySTL(buf) THEN parseASCIISTL(buf)
         ELSE parseBinarySTL(buf)
  ELSE parseBinarySTL(buf)

StlIdle ==
  /\ stlInput = NoBuffer
  /\ stlOut = NotDecoded

PInit == LintIdle /\ StlIdle

\* The mutants of C14 and C19: every diagnostic counts as an error / none does.
IsErrorAny(e) == TRUE
IsErrorNone(e) == FALSE
IsError(e) == e.severity = "error"
\* lintResult.errors.some(e => e.severity === 'error')
\* The texts handed to the controller: a blank text, a clean text, a text
\* with a warning only, a text with an unclosed bracket.
Texts == { <<" ">>, <<"a", ";">>, <<"a", "=", "a", "a">>, <<"(">> }

\* const lintResult = lintOpenSCAD(code) (part_010 line 64, 87), computed
\* once for every text of the model.
\* The blank texts: the empty text, a space, a line break and a space.
BlankTexts == { <<>>, <<" ">>, <<NL, " ">> }

LintTable == [code \in Texts \cup BlankTexts |-> lintOpenSCAD(code)]
lintResult(code) == LintTable[code]

\* The mutant of C13: lint errors do not stop render.
HasLintErrorsNever(code) == FALSE
HasLintErrors(code) == \E k \in 1..Len(lintResult(code)) : IsError(lintResult(code)[k])

\* ------------------------------------------------------------------ worker
\* The mutant of C11: the check of initPromise (line 19) is left out.
StartsLoadAlways(raw, ip) == ~raw
\* initOpenSCAD (line 18-21): createOpenSCAD is invoked when there is
\* neither an instance nor a promise.
StartsLoad(raw, ip) == ~raw /\ ip = "null"

\* initOpenSCAD (line 17-40): the promise the caller awaits. It starts the
\* load only when there is neither an instance nor a promise.
InitPromiseAfterCall(raw, ip) ==
  IF StartsLoad(raw, ip) THEN "pending" ELSE ip

\* The mutant of C1: operations are started as soon as their message arrives.
CanStartUnqueued == TRUE
\* opQueue.then(...) (line 195, 209, 217): the callback of a link runs only
\* after the previous link has settled.
CanStart == running = {}

\* The mutant of C2: the chain hands out the most recently added operation.
NextIndexLast(q) == Len(q)
\* The chain is extended at its end (opQueue = opQueue.then(...)), so the
\* operation to start next is the oldest one not yet started.
NextIndex(q) == 1

RemoveAt(q, i) == [k \in 1..(Len(q) - 1) |-> IF k < i THEN q[k] ELSE q[k + 1]]

\* The mutant of C3: a failure is rethrown and not caught by the chain.
TailAfterNoCatch(type, failed) == IF failed THEN "rejected" ELSE "fulfilled"
\* How a link of the chain settles (line 195-221): renderScadToSTL and
\* validateCode catch everything, the 'init' callback catches the load
\* failure, and every link ends in .catch(), so the link always fulfils.
TailAfter(type, failed) == "fulfilled"

\* The mutant of C7: the files of the previous request are not removed.
CleanupOldFilesSkip(fs) == fs
\* "Cleanup old files" (line 55-57).
CleanupOldFiles(fs) == [fs EXCEPT !.input = 0, !.output = Absent]

\* The mutant of C10: the load failure escapes the try block (as in the
\* main-thread handle, where the await precedes the try).
LoadFailedPostsNone(op) == <<>>
\* The catch blocks of renderScadToSTL (line 130-137) and validateCode
\* (line 178-184) when await initOpenSCAD() rejects; 'init' posts init-error
\* (line 199-201).
LoadFailedPosts(op) ==
  IF op.type = "render" THEN <<Msg("render-error", op.id, 0, currentStderr, "load failed")>>
  ELSE IF op.type = "validate" THEN <<Msg("validate-result", op.id, 0, <<"Validation failed">>, FALSE)>>
  ELSE <<Msg("init-error", 0, 0, <<>>, "load failed")>>

\* The mutant of C16: the collector is not reset when a request starts.
StderrAtStartKept(old) == old
\* "Reset stderr collector for this request" (line 49, 145).
StderrAtStart(old) == <<>>

\* renderScadToSTL after the engine is there (line 55-137), as a function of
\* what the engine does: wf = writeFile succeeds, thrown/art/lines = what
\* callMain throws, writes and prints.
RenderEffect(op, wf, thrown, art, lines) ==
  LET fs1    == CleanupOldFiles(wfs)
      fs2    == [fs1 EXCEPT !.input = op.id]
      stale  == fs2.output # Absent
      fs3    == IF art = "none" THEN fs2
                ELSE [fs2 EXCEPT !.output = [kind |-> art, by |-> op.id]]
      err    == currentStderr \o Tag(lines, op.id)
      during == StderrPosts(lines, currentRequestId)
               \o (IF thrown = "abort" THEN <<Msg("abort", 0, 0, <<>>, "abort")>> ELSE <<>>)
      out    == fs3.output
      fail(x) == [fs |-> fs3, stderr |-> err, stale |-> stale, called |-> TRUE, ok |-> FALSE,
                  posts |-> during \o <<Msg("render-error", op.id, 0, err, x)>>]
  IN  IF ~wf
        THEN [fs |-> fs1, stderr |-> currentStderr, stale |-> FALSE, called |-> FALSE, ok |-> FALSE,
              posts |-> <<Msg("render-error", op.id, 0, currentStderr, "writeFile failed")>>]
      ELSE IF out.kind = "none"
        THEN fail(IF err = <<>> THEN "No output generated" ELSE "stderr")
      ELSE IF out.kind = "empty" THEN fail("Output file exists but is empty")
      ELSE IF out.kind = "corrupt" THEN fail("decoder threw")
      ELSE IF out.kind = "nogeom" THEN fail("Generated STL has no geometry")
      ELSE [fs |-> [fs3 EXCEPT !.input = 0, !.output = Absent],
            stderr |-> err, stale |-> stale, called |-> TRUE, ok |-> TRUE,
            posts |-> during \o <<Msg("render-result", op.id, out.by, err, "ok")>>]

\* validateCode after the engine is there (line 151-184).
ValidateEffect(op, wf, thrown, lines) ==
  LET fs1   == [wfs EXCEPT !.validate = 0]
      err0  == currentStderr \o Tag(lines, op.id)
      err   == IF thrown \in {"abort", "other"}
               THEN Append(err0, [req |-> op.id, kind |-> "exception"]) ELSE err0
      valid == thrown \in {"ret", "exit0"}
  IN  IF ~wf
        THEN [fs |-> fs1, stderr |-> currentStderr,
              posts |-> <<Msg("validate-result", op.id, 0, <<"writeFile failed">>, FALSE)>>]
      ELSE [fs |-> fs1, stderr |-> err,
            posts |-> StderrPosts(lines, currentRequestId)
                      \o <<Msg("validate-result", op.id, 0, err, valid /\ ~HasErrorLine(err))>>]

\* What is kept of a validation: beh is what the engine did during it, valid
\* and errors are the fields of its validate-result (line 172-184), the
\* captured lines without the request they belong to.
Kinds(ls) == [k \in 1..Len(ls) |-> ls[k].kind]
Validated(beh, posts, captured) ==
  LET m == posts[Len(posts)]
  IN  [beh |-> beh, valid |-> m.info, errors |-> IF captured THEN Kinds(m.logs) ELSE m.logs]
LastTwo(q) == IF Len(q) <= 2 THEN q ELSE SubSeq(q, Len(q) - 1, Len(q))

WInit ==
  /\ openscadRaw = FALSE
  /\ initPromise = "null"
  /\ opQueue = <<>>
  /\ opQueueTail = "fulfilled"
  /\ running = {}
  /\ currentStderr = <<>>
  /\ currentRequestId = 0
  /\ wfs = [input |-> 0, output |-> Absent, validate |-> 0]
  /\ posted = <<>>
  /\ lastPosted = <<>>
  /\ received = <<>>
  /\ startedIds = <<>>
  /\ skipped = {}
  /\ staleAtCall = FALSE
  /\ factoryCalls = 0
  /\ validations = <<>>

\* The mutant of C30: the operation goes on as soon as the load was started.
AwaitReturnsUnsettled(ip) == ip \in {"pending", "resolved"}
\* const instance = await initOpenSCAD() (line 53, 149, 198) yields the
\* instance once the promise is resolved.
AwaitReturns(ip) == ip = "resolved"

InitSettled == initPromise \in {"resolved", "rejected"}

\* A promise reaction is ready to run: the event loop runs it before it
\* delivers the next message.
MicrotaskPending ==
  \/ opQueue # <<>> /\ CanStart
  \/ running # {} /\ InitSettled

\* self.onmessage (line 190-225): the operation is appended to the chain.
Receive(t) ==
  /\ Len(received) < MaxMsgs
  /\ ~MicrotaskPending
  /\ received' = Append(received, t)
  /\ opQueue' = Append(opQueue, [type |-> t, id |-> Len(received) + 1])
  /\ lastPosted' = <<>>
  /\ UNCHANGED <<openscadRaw, initPromise, opQueueTail, running, currentStderr,
                 currentRequestId, wfs, posted, startedIds, skipped, staleAtCall, factoryCalls>>
  /\ UNCHANGED validations
  /\ UNCHANGED <<cvars, svars, pvars, hvars, gvars, tvars>>

\* The callback of the next link runs: the synchronous head of
\* renderScadToSTL / validateCode (line 48-53, 144-149) or of the 'init'
\* callback (line 196-198), up to await initOpenSCAD(). A link whose
\* predecessor rejected does not run its callback.
StartOp ==
  /\ opQueue # <<>>
  /\ CanStart
  /\ LET i  == NextIndex(opQueue)
         op == opQueue[i]
     IN  /\ opQueue' = RemoveAt(opQueue, i)
         /\ IF opQueueTail = "rejected"
              THEN /\ skipped' = skipped \cup {op}
                   /\ UNCHANGED <<running, startedIds, currentStderr, currentRequestId, initPromise,
                                  factoryCalls>>
              ELSE /\ running' = running \cup {op}
                   /\ startedIds' = Append(startedIds, op.id)
                   /\ initPromise' = InitPromiseAfterCall(openscadRaw, initPromise)
                   /\ factoryCalls' = factoryCalls
                                       + (IF StartsLoad(openscadRaw, initPromise) THEN 1 ELSE 0)
                   /\ IF op.type = "init"
                        THEN UNCHANGED <<currentStderr, currentRequestId>>
                        ELSE /\ currentStderr' = StderrAtStart(currentStderr)
                             /\ currentRequestId' = op.id
                   /\ UNCHANGED skipped
  /\ lastPosted' = <<>>
  /\ UNCHANGED <<openscadRaw, opQueueTail, wfs, posted, received, staleAtCall>>
  /\ UNCHANGED validations
  /\ UNCHANGED <<cvars, svars, pvars, hvars, gvars, tvars>>

\* createOpenSCAD resolves (line 33-37).
EngineLoaded ==
  /\ initPromise = "pending"
  /\ initPromise' = "resolved"
  /\ openscadRaw' = TRUE
  /\ posted' = Append(posted, Msg("ready", 0, 0, <<>>, "ready"))
  /\ lastPosted' = <<Msg("ready", 0, 0, <<>>, "ready")>>
  /\ UNCHANGED <<opQueue, opQueueTail, running, currentStderr, currentRequestId, wfs,
                 received, startedIds, skipped, staleAtCall, factoryCalls>>
  /\ UNCHANGED validations
  /\ UNCHANGED <<cvars, svars, pvars, hvars, gvars, tvars>>

\* createOpenSCAD rejects; initPromise stays rejected.
EngineLoadFailed ==
  /\ initPromise = "pending"
  /\ initPromise' = "rejected"
  /\ lastPosted' = <<>>
  /\ UNCHANGED <<openscadRaw, opQueue, opQueueTail, running, currentStderr, currentRequestId,
                 wfs, posted, received, startedIds, skipped, staleAtCall, factoryCalls>>
  /\ UNCHANGED validations
  /\ UNCHANGED <<cvars, svars, pvars, hvars, gvars, tvars>>

Settle(op, failed) ==
  /\ running' = running \ {op}
  /\ opQueueTail' = TailAfter(op.type, failed)

\* await initOpenSCAD() rejects in a started operation.
ResumeLoadFailed(op) ==
  /\ op \in running
  /\ initPromise = "rejected"
  /\ posted' = posted \o Brief(LoadFailedPosts(op))
  /\ lastPosted' = LoadFailedPosts(op)
  /\ currentRequestId' = IF op.type = "init" THEN currentRequestId ELSE 0
  /\ Settle(op, TRUE)
  /\ UNCHANGED <<openscadRaw, initPromise, opQueue, currentStderr, wfs, received,
                 startedIds, skipped, staleAtCall, factoryCalls>>
  /\ UNCHANGED validations
  /\ UNCHANGED <<cvars, svars, pvars, hvars, gvars, tvars>>

\* The 'init' callback continues after the load (line 198).
ResumeInit(op) ==
  /\ op \in running
  /\ op.type = "init"
  /\ AwaitReturns(initPromise)
  /\ Settle(op, FALSE)
  /\ lastPosted' = <<>>
  /\ UNCHANGED <<openscadRaw, initPromise, opQueue, currentStderr, currentRequestId, wfs,
                 posted, received, startedIds, skipped, staleAtCall, factoryCalls>>
  /\ UNCHANGED validations
  /\ UNCHANGED <<cvars, svars, pvars, hvars, gvars, tvars>>

\* renderScadToSTL continues after the load and runs to its end (line 55-140).
ResumeRender(op) ==
  /\ op \in running
  /\ op.type = "render"
  /\ AwaitReturns(initPromise)
  /\ \E wf \in BOOLEAN, thrown \in Thrown, art \in ArtKinds, lines \in Emissions :
       /\ ~wf => (thrown = "ret" /\ art = "none" /\ lines = <<>>)
       /\ LET e == RenderEffect(op, wf, thrown, art, lines)
          IN  /\ wfs' = e.fs
              /\ currentStderr' = e.stderr
              /\ posted' = posted \o Brief(e.posts)
              /\ lastPosted' = e.posts
              /\ staleAtCall' = (staleAtCall \/ e.stale)
              /\ Settle(op, ~e.ok)
  /\ currentRequestId' = 0
  /\ UNCHANGED <<openscadRaw, initPromise, opQueue, received, startedIds, skipped,
                 factoryCalls>>
  /\ UNCHANGED validations
  /\ UNCHANGED <<cvars, svars, pvars, hvars, gvars, tvars>>

\* validateCode continues after the load and runs to its end (line 151-187),
\* the engine doing wf, thrown, lines.
ValidateRuns(op, wf, thrown, lines) ==
  /\ op \in running
  /\ op.type = "validate"
  /\ AwaitReturns(initPromise)
  /\ ~wf => (thrown = "ret" /\ lines = <<>>)
  /\ LET e == ValidateEffect(op, wf, thrown, lines)
     IN  /\ wfs' = e.fs
         /\ currentStderr' = e.stderr
         /\ posted' = posted \o Brief(e.posts)
         /\ lastPosted' = e.posts
         /\ Settle(op, ~wf)
  /\ currentRequestId' = 0
  /\ UNCHANGED <<openscadRaw, initPromise, opQueue, received, startedIds, skipped, staleAtCall,
                 factoryCalls>>
  /\ UNCHANGED <<cvars, svars, pvars, hvars, gvars, tvars>>

ResumeValidate(op) ==
  \E wf \in BOOLEAN, thrown \in Thrown, lines \in Emissions :
    /\ ValidateRuns(op, wf, thrown, lines)
    /\ UNCHANGED validations

\* The same step, with the validation kept in validations.
ResumeValidateKept(op) ==
  \E wf \in BOOLEAN, thrown \in Thrown, lines \in Emissions :
    /\ ValidateRuns(op, wf, thrown, lines)
    /\ validations' = LastTwo(Append(validations,
                         Validated(<<wf, thrown, lines>>,
                                   ValidateEffect(op, wf, thrown, lines).posts, wf)))

Ops == {[type |-> t, id |-> i] : t \in MessageType, i \in 1..MaxMsgs}

WNext ==
  \/ \E t \in MessageType : Receive(t)
  \/ StartOp
  \/ EngineLoaded
  \/ EngineLoadFailed
  \/ \E op \in Ops : ResumeLoadFailed(op)
  \/ \E op \in Ops : ResumeInit(op)
  \/ \E op \in Ops : ResumeRender(op)
  \/ \E op \in Ops : ResumeValidate(op)

\* ------------------------------------------------------------------ main-thread handle
NoTimer == <<"no timer">>
\* useState error: n is the compile a failure message comes from (0 for
\* none), lint the entries a lint message is made of.
NoError == [n |-> 0, msg |-> "null", lint |-> <<>>]

\* What callMain does, as the handle sees it (part_002 line 257-268): it
\* returns a status, throws a number, or throws something else.
SvcThrown == {"ret0", "ret1", "num0", "num1", "obj"}
\* exitCode (part_002 line 259-268, 343-351).
ExitCode(thrown) == IF thrown \in {"ret0", "num0"} THEN 0 ELSE 1

\* The lines the engine prints during one call of the handle.
SvcEmissions == {l \in Emissions : \A k \in 1..Len(l) : l[k] = "error"}

\* The mutant of C11: the check of initPromise (part_002 line 199) is left out.
SvcStartsLoadAlways(inst, ip) == ~inst
\* The mutant of C12: a failed load is started again by the next caller.
SvcStartsLoadRetry(inst, ip) == ~inst /\ ip \in {"null", "rejected"}
\* initOpenSCAD of the handle (part_002 line 195-206): createOpenSCAD is
\* invoked when there is neither an instance nor a promise.
SvcStartsLoad(inst, ip) == ~inst /\ ip = "null"

\* One call of initOpenSCAD (part_002 line 194-227), up to its return.
SvcInitCall ==
  IF SvcStartsLoad(openscadInstance, svcInitPromise)
    THEN /\ loadingProgress' = "loading"
         /\ svcInitPromise' = "pending"
         /\ svcFactoryCalls' = svcFactoryCalls + 1
    ELSE UNCHANGED <<loadingProgress, svcInitPromise, svcFactoryCalls>>

\* renderScadToSTL of part_002 after the engine is there (line 245-319).
\* outcome: "mesh" (returns), "scadError" (throws OpenSCADError), "error"
\* (throws something else). called: the entry point was invoked; good: it
\* left an artifact that is non-empty and decodes to at least one triangle.
SvcRenderEffect(c, wf, thrown, art, lines) ==
  LET l == Tag(lines, c.n)
      r(o, m, lg) == [n |-> c.n, op |-> "render", outcome |-> o, msg |-> m, logs |-> lg,
                      called |-> wf, good |-> (wf /\ art = "good")]
  IN  IF ~wf THEN r("error", "writeFile failed", <<>>)
      ELSE IF ExitCode(thrown) # 0
        THEN r("scadError", IF l # <<>> THEN "stderr" ELSE "OpenSCAD exited with code", l)
      ELSE IF art = "none"
        THEN r("scadError", IF l # <<>> THEN "stderr" ELSE "No output generated", l)
      ELSE IF art = "empty" THEN r("scadError", "No geometry generated", l)
      ELSE IF art = "corrupt" THEN r("error", "decoder threw", <<>>)
      ELSE IF art = "nogeom" THEN r("scadError", "Generated STL has no geometry", l)
      ELSE r("mesh", "ok", <<>>)

\* What validate of the hook resolves to: outcome "valid" / "invalid", logs
\* are its errors, called tells whether validateScadCode was invoked.
ValidateResult(n, o, errs, inv) ==
  [n |-> n, op |-> "validate", outcome |-> o, msg |-> "validate", logs |-> errs,
   called |-> inv, good |-> FALSE]

\* validateScadCode of part_002 after the engine is there (line 331-374).
SvcValidateEffect(c, wf, thrown, lines) ==
  IF ~wf THEN ValidateResult(c.n, "invalid", <<"writeFile failed">>, TRUE)
  ELSE ValidateResult(c.n,
                      IF ExitCode(thrown) = 0 /\ lines = <<>> THEN "valid" ELSE "invalid",
                      Tag(lines, c.n), TRUE)

\* The finally block (part_002 line 306-319): both scratch files are removed.
SvcCleanup(fs) == [fs EXCEPT !.input = 0, !.output = Absent]

\* parseOpenSCADErrors (part_003 line 203-251) on the lines of the model:
\* an "error" line is an ERROR: line, a "warning" line a WARNING: line;
\* each yields one entry.
parseOpenSCADErrors(lg) ==
  [k \in 1..Len(lg) |-> LintErr(1, 1, <<"engine", lg[k].req>>, lg[k].kind)]

\* formatLintErrors (part_003 line 256-262): one formatted line per entry.
formatLintErrors(es) == [n |-> 0, msg |-> "lint", lint |-> es]

\* `Line ${e.line}: ${e.message}` of every error-severity entry (part_010
\* line 65-67).
LintErrorMessages(es) ==
  LET r == SelectSeq(es, IsError)
  IN  [k \in 1..Len(r) |-> <<"Line", r[k].line, r[k].message>>]

\* The printErr the engine was created with.
OriginalPrintErr == [op |-> "none", n |-> 0]

CInit ==
  /\ timers = {}
  /\ held = <<>>
  /\ isLoading = FALSE
  /\ interval = "none"
  /\ sections = {}
  /\ printErr = OriginalPrintErr
  /\ mounted = FALSE
  /\ openscadInstance = FALSE
  /\ svcInitPromise = "null"
  /\ loadingProgress = "idle"
  /\ svcFactoryCalls = 0
  /\ sfs = [input |-> 0, output |-> Absent, validate |-> 0]
  /\ inflight = <<>>
  /\ results = <<>>
  /\ mesh = 0
  /\ isRendering = FALSE
  /\ error = NoError
  /\ lintErrors = <<>>
  /\ logs = <<>>
  /\ timeoutRef = NoTimer
  /\ lastCodeRef = <<>>
  /\ lastRendered = NoTimer
  /\ issued = 0
  /\ validated = 0
  /\ superseded = {}
  /\ winOpen = FALSE
  /\ winLast = NoTimer
  /\ winCompiles = <<>>

SvcSettled == svcInitPromise \in {"resolved", "rejected"}

\* Promise reactions run before the next timer or user event.
CtlMicrotaskPending ==
  \/ inflight # <<>> /\ SvcSettled
  \/ results # <<>>

IsRenderCall(c) == c.op = "render"

InFlightCompiles ==
  LET a == SelectSeq(inflight, IsRenderCall)
      b == SelectSeq(results, IsRenderCall)
  IN  {a[k].n : k \in 1..Len(a)} \cup {b[k].n : k \in 1..Len(b)}

\* checkStatus (part_010 line 39-42): isLoading is set to whether the
\* handle's status is 'loading'.
StatusIsLoading(status) == status = "loading"

\* The hook is mounted: the engine is preloaded (part_010 line 29-35,
\* part_002 line 378-384), the status poll is started and the status is
\* checked once (part_010 line 38-55).
Mount ==
  /\ ~mounted
  /\ mounted' = TRUE
  /\ IF loadingProgress = "idle" THEN SvcInitCall
     ELSE UNCHANGED <<loadingProgress, svcInitPromise, svcFactoryCalls>>
  /\ UNCHANGED <<openscadInstance, sfs, inflight, results, mesh, isRendering, error,
                 lintErrors, logs, timeoutRef, lastCodeRef, lastRendered, issued, validated,
                 superseded, winOpen, winLast, winCompiles>>
  /\ isLoading' = StatusIsLoading(loadingProgress')
  /\ interval' = "set"
  /\ UNCHANGED <<wvars, svars, pvars, gvars, tvars>>

\* render(code) of the hook up to its await (part_010 line 78-103). It
\* yields the new controller state and whether a compile is submitted.
RenderSync(code) ==
  IF IsBlank(code)
    THEN [mesh |-> 0, error |-> NoError, lintErrors |-> <<>>, isRendering |-> isRendering,
          submit |-> FALSE]
  ELSE IF HasLintErrors(code)
    THEN [mesh |-> 0, error |-> formatLintErrors(SelectSeq(lintResult(code), IsError)),
          lintErrors |-> lintResult(code), isRendering |-> FALSE, submit |-> FALSE]
  ELSE [mesh |-> mesh, error |-> NoError, lintErrors |-> lintResult(code),
        isRendering |-> TRUE, submit |-> TRUE]

\* The state changes of render(code), with the call of renderScadToSTL
\* (part_002 line 239-243) when a compile is submitted.
DoRender(code) ==
  LET r == RenderSync(code)
  IN  /\ r.submit => (issued < MaxCompiles /\ Len(inflight) < MaxPending)
      /\ mesh' = r.mesh
      /\ error' = r.error
      /\ lintErrors' = r.lintErrors
      /\ isRendering' = r.isRendering
      /\ lastRendered' = code
      /\ IF r.submit
           THEN /\ issued' = issued + 1
                /\ inflight' = Append(inflight, [n |-> issued + 1, op |-> "render", code |-> code])
                /\ superseded' = superseded \cup InFlightCompiles
                /\ SvcInitCall
           ELSE UNCHANGED <<issued, inflight, superseded, loadingProgress, svcInitPromise,
                            svcFactoryCalls>>

\* debouncedRender (part_010 line 126-142).
DebouncedRenderCall(code) ==
  /\ mounted
  /\ ~CtlMicrotaskPending
  /\ IF code = lastCodeRef
       THEN /\ timeoutRef' = NoTimer
            /\ UNCHANGED <<lastCodeRef, isRendering>>
       ELSE /\ lastCodeRef' = code
            /\ isRendering' = TRUE
            /\ timeoutRef' = code
  /\ winOpen' = TRUE
  /\ winLast' = code
  /\ winCompiles' = IF winOpen THEN winCompiles ELSE <<>>
  /\ UNCHANGED <<mounted, openscadInstance, svcInitPromise, loadingProgress, svcFactoryCalls,
                 sfs, inflight, results, mesh, error, lintErrors, logs, lastRendered, issued,
                 validated, superseded>>
  /\ UNCHANGED <<wvars, svars, pvars, hvars, gvars>>

DebouncedRender(code) ==
  /\ DebouncedRenderCall(code)
  /\ UNCHANGED timers

\* The mutant of C37: the pending timer is not cleared.
ClearTimeoutNone(ts) == ts
\* clearTimeout(timeoutRef.current) (part_010 line 127-129): the timer whose
\* id the ref holds is cleared, if it is still pending.
ClearTimeout(ts) == {t \in ts : ~t.ref}

\* The same call, timer by timer: the timer the ref holds is cleared and,
\* unless the text is the last one, a new timer is set and its id stored
\* in the ref (part_010 line 127-141).
DebouncedRenderTimers(code) ==
  /\ DebouncedRenderCall(code)
  /\ timers' = IF code = lastCodeRef
                 THEN ClearTimeout(timers)
                 ELSE {[t EXCEPT !.ref = FALSE] : t \in ClearTimeout(timers)}
                      \cup {[code |-> code, ref |-> TRUE]}

\* The debounce timer fires (part_010 line 139-141): render(code).
TimerCallback(code) ==
  /\ ~CtlMicrotaskPending
  /\ DoRender(code)
  /\ timeoutRef' = NoTimer
  /\ winOpen' = FALSE
  /\ winCompiles' = IF RenderSync(code).submit THEN Append(winCompiles, code)
                    ELSE winCompiles
  /\ UNCHANGED <<mounted, openscadInstance, sfs, results, logs, lastCodeRef, validated, winLast>>
  /\ UNCHANGED <<wvars, svars, pvars, hvars, gvars>>

TimerFire ==
  /\ timeoutRef # NoTimer
  /\ TimerCallback(timeoutRef)
  /\ UNCHANGED timers

\* A pending timer fires and runs its callback; the ref keeps its id.
TimerFires(t) ==
  /\ t \in timers
  /\ TimerCallback(t.code)
  /\ timers' = timers \ {t}

\* debounceMs pass after the last debounced call with no timer pending.
WindowElapsed ==
  /\ ~CtlMicrotaskPending
  /\ winOpen
  /\ timeoutRef = NoTimer
  /\ winOpen' = FALSE
  /\ UNCHANGED <<mounted, openscadInstance, svcInitPromise, loadingProgress, svcFactoryCalls,
                 sfs, inflight, results, mesh, isRendering, error, lintErrors, logs, timeoutRef,
                 lastCodeRef, lastRendered, issued, validated, superseded, winLast, winCompiles>>
  /\ UNCHANGED <<wvars, svars, pvars, hvars, gvars, tvars>>

\* forceRender(code) (part_010 line 161): render without the debounce.
ForceRenderCall(code) ==
  /\ mounted
  /\ ~CtlMicrotaskPending
  /\ DoRender(code)
  /\ UNCHANGED <<mounted, openscadInstance, sfs, results, logs, timeoutRef, lastCodeRef,
                 validated, winOpen, winLast, winCompiles>>
  /\ UNCHANGED <<wvars, svars, pvars, hvars, tvars>>

ForceRender(code) ==
  /\ ForceRenderCall(code)
  /\ UNCHANGED held

\* The same call, with the mesh of the moment kept for the compile it
\* submits.
ForceRenderHeld(code) ==
  /\ ForceRenderCall(code)
  /\ held' = IF RenderSync(code).submit THEN Append(held, mesh) ELSE held

\* validate(code) of the hook up to its return or its await (part_010 line
\* 58-74). The promise of a call that returns at once is resolved at once.
Validate(code) ==
  /\ mounted
  /\ ~CtlMicrotaskPending
  /\ IF IsBlank(code)
       THEN /\ results' = Append(results, ValidateResult(0, "valid", <<>>, FALSE))
            /\ UNCHANGED <<inflight, validated, loadingProgress, svcInitPromise, svcFactoryCalls>>
     ELSE IF LintErrorMessages(lintResult(code)) # <<>>
       THEN /\ results' = Append(results,
                 ValidateResult(0, "invalid", LintErrorMessages(lintResult(code)), FALSE))
            /\ UNCHANGED <<inflight, validated, loadingProgress, svcInitPromise, svcFactoryCalls>>
     ELSE /\ validated < MaxValidates
          /\ Len(inflight) < MaxPending
          /\ validated' = validated + 1
          /\ inflight' = Append(inflight, [n |-> validated + 1, op |-> "validate", code |-> code])
          /\ SvcInitCall
          /\ UNCHANGED results
  /\ UNCHANGED <<mounted, openscadInstance, sfs, mesh, isRendering, error, lintErrors, logs,
                 timeoutRef, lastCodeRef, lastRendered, issued, superseded, winOpen, winLast,
                 winCompiles>>
  /\ UNCHANGED <<wvars, svars, pvars, hvars, gvars, tvars>>

\* The mutant of C32: the poll never finds the load over.
PollStopsNever(status) == FALSE
\* The test of the status poll (part_010 line 47).
PollStops(status) == status # "loading"

\* The status poll ticks (part_010 line 45-51): once the status is no
\* longer 'loading' the poll is cleared and isLoading set to false.
IntervalTick ==
  /\ interval = "set"
  /\ ~CtlMicrotaskPending
  /\ IF PollStops(loadingProgress)
       THEN /\ interval' = "cleared"
            /\ isLoading' = FALSE
       ELSE UNCHANGED hvars
  /\ UNCHANGED <<wvars, cvars, svars, pvars, gvars, tvars>>

\* createOpenSCAD of the handle resolves (part_002 line 215-219).
SvcEngineLoaded ==
  /\ svcInitPromise = "pending"
  /\ svcInitPromise' = "resolved"
  /\ openscadInstance' = TRUE
  /\ loadingProgress' = "ready"
  /\ UNCHANGED <<mounted, svcFactoryCalls, sfs, inflight, results, mesh, isRendering, error,
                 lintErrors, logs, timeoutRef, lastCodeRef, lastRendered, issued, validated,
                 superseded, winOpen, winLast, winCompiles>>
  /\ UNCHANGED <<wvars, svars, pvars, hvars, gvars, tvars>>

\* createOpenSCAD of the handle rejects (part_002 line 220-224).
SvcEngineLoadFailed ==
  /\ svcInitPromise = "pending"
  /\ svcInitPromise' = "rejected"
  /\ loadingProgress' = "error"
  /\ UNCHANGED <<mounted, openscadInstance, svcFactoryCalls, sfs, inflight, results, mesh,
                 isRendering, error, lintErrors, logs, timeoutRef, lastCodeRef, lastRendered,
                 issued, validated, superseded, winOpen, winLast, winCompiles>>
  /\ UNCHANGED <<wvars, svars, pvars, hvars, gvars, tvars>>

\* What a call of the handle settles with when await initOpenSCAD() throws
\* (part_002 line 242, 330 and 369-374).
SvcLoadFailedResult(c) ==
  IF c.op = "validate"
    THEN ValidateResult(c.n, "invalid", <<"load failed">>, TRUE)
    ELSE [n |-> c.n, op |-> c.op, outcome |-> "error", msg |-> "load failed", logs |-> <<>>,
          called |-> FALSE, good |-> FALSE]

\* The oldest suspended call of the handle continues and runs to its end.
SvcRun ==
  /\ inflight # <<>>
  /\ SvcSettled
  /\ LET c == Head(inflight)
     IN  /\ inflight' = Tail(inflight)
         /\ IF svcInitPromise = "rejected"
              THEN /\ results' = Append(results, SvcLoadFailedResult(c))
                   /\ sfs' = sfs
            ELSE IF c.op = "validate"
              THEN \E wf \in BOOLEAN, thrown \in SvcThrown, lines \in SvcEmissions :
                     /\ ~wf => (thrown = "ret0" /\ lines = <<>>)
                     /\ results' = Append(results, SvcValidateEffect(c, wf, thrown, lines))
                     /\ sfs' = [sfs EXCEPT !.validate = IF wf THEN 0 ELSE @]
            ELSE \E wf \in BOOLEAN, thrown \in SvcThrown, art \in ArtKinds, lines \in SvcEmissions :
                   /\ ~wf => (thrown = "ret0" /\ art = "none" /\ lines = <<>>)
                   /\ results' = Append(results, SvcRenderEffect(c, wf, thrown, art, lines))
                   /\ sfs' = SvcCleanup(sfs)
  /\ UNCHANGED <<mounted, openscadInstance, svcInitPromise, loadingProgress, svcFactoryCalls,
                 mesh, isRendering, error, lintErrors, logs, timeoutRef, lastCodeRef,
                 lastRendered, issued, validated, superseded, winOpen, winLast, winCompiles>>
  /\ UNCHANGED <<wvars, svars, pvars, hvars, gvars, tvars>>

\* The mutant of C21: a success leaves the stored log as it is.
LogsAfterSuccessKept(old) == old
\* setLogs([]) after a compile that returned a mesh (part_010 line 107).
LogsAfterSuccess(old) == <<>>

\* The mutant of C18: the caller of validate stores its result as render does.
AppliesToStateAll(r) == TRUE
\* Only render continues with state updates after its await (part_010 line
\* 103-123); validate returns what it awaited (line 74-75).
AppliesToState(r) == r.op = "render"

\* The caller of the oldest settled call continues after its await: render
\* (part_010 line 103-123) or validate (line 74-75).
ApplyResult ==
  /\ results # <<>>
  /\ ~(inflight # <<>> /\ SvcSettled)
  /\ LET r == Head(results)
     IN  /\ results' = Tail(results)
         /\ IF ~AppliesToState(r)
              THEN UNCHANGED <<mesh, error, lintErrors, logs, isRendering>>
            ELSE /\ IF r.outcome = "mesh"
                      THEN /\ mesh' = r.n
                           /\ error' = NoError
                           /\ lintErrors' = <<>>
                           /\ logs' = LogsAfterSuccess(logs)
                    ELSE IF r.outcome = "scadError"
                      THEN /\ error' = [n |-> r.n, msg |-> r.msg, lint |-> <<>>]
                           /\ logs' = r.logs
                           /\ lintErrors' = IF r.logs # <<>>
                                              THEN lintErrors \o parseOpenSCADErrors(r.logs)
                                              ELSE lintErrors
                           /\ UNCHANGED mesh
                    ELSE /\ error' = [n |-> r.n, msg |-> r.msg, lint |-> <<>>]
                         /\ UNCHANGED <<mesh, lintErrors, logs>>
                 /\ isRendering' = FALSE
  /\ UNCHANGED <<mounted, openscadInstance, svcInitPromise, loadingProgress, svcFactoryCalls,
                 sfs, inflight, timeoutRef, lastCodeRef, lastRendered, issued, validated,
                 superseded, winOpen, winLast, winCompiles>>
  /\ UNCHANGED <<wvars, svars, pvars, hvars, gvars, tvars>>

\* ---- the engine section of a call, statement by statement
\* The positions of a call inside its section: "swapped" after printErr
\* was replaced, "written" after writeFile, "called" after callMain.
\* The mutant of C24: callMain is awaited.
YieldsAtCallMain(pc) == pc = "called"
\* Whether the code gives up the thread at a position of the section:
\* there is no await between await initOpenSCAD() (part_002 line 242, 331)
\* and the end of either function.
Yields(pc) == FALSE

\* No section is in the middle of its synchronous code: only then another
\* callback, promise reaction or event handler can run.
ThreadFree == \A s \in sections : Yields(s.pc)

CallId(c) == [op |-> c.op, n |-> c.n]

\* The oldest suspended call continues after await initOpenSCAD() and
\* replaces printErr (part_002 line 242-250, 331-338), or throws when the
\* load has failed.
SecEnter ==
  /\ ThreadFree
  /\ inflight # <<>>
  /\ SvcSettled
  /\ LET c == Head(inflight)
     IN  /\ inflight' = Tail(inflight)
         /\ IF svcInitPromise = "rejected"
              THEN /\ results' = Append(results, SvcLoadFailedResult(c))
                   /\ UNCHANGED svars
              ELSE /\ sections' = sections \cup {[id |-> CallId(c), pc |-> "swapped",
                                                  orig |-> printErr]}
                   /\ printErr' = CallId(c)
                   /\ UNCHANGED results
  /\ UNCHANGED <<mounted, openscadInstance, svcInitPromise, loadingProgress, svcFactoryCalls,
                 sfs, mesh, isRendering, error, lintErrors, logs, timeoutRef, lastCodeRef,
                 lastRendered, issued, validated, superseded, winOpen, winLast, winCompiles>>
  /\ UNCHANGED <<wvars, pvars, hvars, gvars, tvars>>

\* FS.writeFile of the scratch input (part_002 line 254, 341). When it
\* throws, render runs its finally block (line 306-319) and validate goes
\* to its outer catch (line 369) without restoring printErr.
SecWrite(s) ==
  /\ s \in sections
  /\ s.pc = "swapped"
  /\ \E wf \in BOOLEAN :
       IF wf
         THEN /\ sfs' = IF s.id.op = "render" THEN [sfs EXCEPT !.input = s.id.n]
                        ELSE [sfs EXCEPT !.validate = s.id.n]
              /\ sections' = (sections \ {s}) \cup {[s EXCEPT !.pc = "written"]}
              /\ UNCHANGED <<printErr, results>>
         ELSE /\ sections' = sections \ {s}
              /\ IF s.id.op = "render"
                   THEN /\ results' = Append(results,
                                         SvcRenderEffect(s.id, FALSE, "ret0", "none", <<>>))
                        /\ sfs' = SvcCleanup(sfs)
                        /\ printErr' = s.orig
                   ELSE /\ results' = Append(results,
                                         SvcValidateEffect(s.id, FALSE, "ret0", <<>>))
                        /\ UNCHANGED <<sfs, printErr>>
  /\ UNCHANGED <<mounted, openscadInstance, svcInitPromise, loadingProgress, svcFactoryCalls,
                 inflight, mesh, isRendering, error, lintErrors, logs, timeoutRef, lastCodeRef,
                 lastRendered, issued, validated, superseded, winOpen, winLast, winCompiles>>
  /\ UNCHANGED <<wvars, pvars, hvars, gvars, tvars>>

\* callMain is invoked (part_002 line 259-263, 346-350).
SecCallMain(s) ==
  /\ s \in sections
  /\ s.pc = "written"
  /\ sections' = (sections \ {s}) \cup {[s EXCEPT !.pc = "called"]}
  /\ UNCHANGED <<mounted, openscadInstance, svcInitPromise, loadingProgress, svcFactoryCalls,
                 sfs, inflight, results, mesh, isRendering, error, lintErrors, logs, timeoutRef,
                 lastCodeRef, lastRendered, issued, validated, superseded, winOpen, winLast,
                 winCompiles, printErr>>
  /\ UNCHANGED <<wvars, pvars, hvars, gvars, tvars>>

\* The rest of the function after callMain: printErr is restored, the
\* scratch files are removed, the call settles (part_002 line 264-319,
\* 351-368).
SecLeave(s) ==
  /\ s \in sections
  /\ s.pc = "called"
  /\ sections' = sections \ {s}
  /\ printErr' = s.orig
  /\ IF s.id.op = "render"
       THEN /\ \E thrown \in SvcThrown, art \in ArtKinds, lines \in SvcEmissions :
                 results' = Append(results, SvcRenderEffect(s.id, TRUE, thrown, art, lines))
            /\ sfs' = SvcCleanup(sfs)
       ELSE /\ \E thrown \in SvcThrown, lines \in SvcEmissions :
                 results' = Append(results, SvcValidateEffect(s.id, TRUE, thrown, lines))
            /\ sfs' = [sfs EXCEPT !.validate = 0]
  /\ UNCHANGED <<mounted, openscadInstance, svcInitPromise, loadingProgress, svcFactoryCalls,
                 inflight, mesh, isRendering, error, lintErrors, logs, timeoutRef, lastCodeRef,
                 lastRendered, issued, validated, superseded, winOpen, winLast, winCompiles>>
  /\ UNCHANGED <<wvars, pvars, hvars, gvars, tvars>>

\* The hook and the handle with the engine sections run statement by
\* statement: everything else runs only while the thread is free.
SNext ==
  \/ ThreadFree /\ Mount
  \/ ThreadFree /\ ForceRender(<<"a", ";">>)
  \/ ThreadFree /\ Validate(<<"a", ";">>)
  \/ ThreadFree /\ SvcEngineLoaded
  \/ ThreadFree /\ SvcEngineLoadFailed
  \/ SecEnter
  \/ \E s \in sections : SecWrite(s)
  \/ \E s \in sections : SecCallMain(s)
  \/ \E s \in sections : SecLeave(s)
  \/ ThreadFree /\ ApplyResult

CNext ==
  \/ Mount
  \/ \E code \in Texts : DebouncedRender(code)
  \/ TimerFire
  \/ WindowElapsed
  \/ \E code \in Texts : ForceRender(code)
  \/ SvcEngineLoaded
  \/ SvcEngineLoadFailed
  \/ SvcRun
  \/ ApplyResult

\* The steps of the hook when its client validates and forces renders.
VNext ==
  \/ Mount
  \/ \E code \in Texts : ForceRender(code)
  \/ \E code \in Texts : Validate(code)
  \/ SvcEngineLoaded
  \/ SvcEngineLoadFailed
  \/ SvcRun
  \/ ApplyResult

\* The steps of the hook while the engine loads: the status poll ticks
\* between the client's forced renders.
LNext ==
  \/ Mount
  \/ \E code \in Texts : ForceRender(code)
  \/ IntervalTick
  \/ SvcEngineLoaded
  \/ SvcEngineLoadFailed
  \/ SvcRun
  \/ ApplyResult

\* The steps of the hook with the browser's timers run one by one.
TNext ==
  \/ Mount
  \/ \E code \in Texts : DebouncedRenderTimers(code)
  \/ \E t \in timers : TimerFires(t)
  \/ WindowElapsed
  \/ \E code \in Texts : ForceRender(code)
  \/ SvcEngineLoaded
  \/ SvcEngineLoadFailed
  \/ SvcRun
  \/ ApplyResult

\* The steps of the hook when its client forces renders, with the mesh
\* held at each submission kept.
HNext ==
  \/ Mount
  \/ \E code \in Texts : ForceRenderHeld(code)
  \/ SvcEngineLoaded
  \/ SvcEngineLoadFailed
  \/ SvcRun
  \/ ApplyResult

\* The state after the worker script has been evaluated and the hook has
\* been mounted.
Init == WInit /\ CInit /\ PInit

\* lintOpenSCAD(code) is called and returns (part_003 line 35-198).
Lint ==
  /\ lintOut' = [called |-> TRUE, errors |-> lintOpenSCAD(lintInput)]
  /\ UNCHANGED <<lintInput, stlInput, stlOut, wvars, cvars, svars, hvars, gvars, tvars>>

\* The state before the linter is called with one of the texts.
LintInit ==
  /\ WInit
  /\ CInit
  /\ lintInput \in BracketTexts(MaxText)
  /\ lintOut = NotCalled
  /\ StlIdle

\* The linter called on one text.
LintSpec == LintInit /\ [][Lint]_vars

\* The linter called on one text with strings and comments.
LintQuotedInit ==
  /\ WInit
  /\ CInit
  /\ lintInput \in QuotedTexts(MaxTokens)
  /\ lintOut = NotCalled
  /\ StlIdle

LintQuotedSpec == LintQuotedInit /\ [][Lint]_vars

\* parseSTL(buffer) is called and returns or throws (stl-parser.ts line 3-15).
Decode ==
  /\ stlOut' = parseSTL(stlInput)
  /\ UNCHANGED <<stlInput, lintInput, lintOut, wvars, cvars, svars, hvars, gvars, tvars>>

\* The state before the decoder is called with one of the buffers.
StlInit ==
  /\ WInit
  /\ CInit
  /\ LintIdle
  /\ stlInput \in TextBuffers(MaxStlLines) \cup BinaryBuffers(MaxTris)
  /\ stlOut = NotDecoded

\* The decoder called on one buffer.
StlSpec == StlInit /\ [][Decode]_vars

\* The worker alone: the main thread does not move.
WorkerSpec == Init /\ [][WNext]_vars

\* The worker receiving 'validate' messages only, one validation after the
\* other with nothing else touching the engine in between.
WVNext ==
  \/ Receive("validate")
  \/ StartOp
  \/ EngineLoaded
  \/ \E op \in Ops : ResumeValidateKept(op)

WorkerValidateSpec == Init /\ [][WVNext]_vars

\* The steps of the hook when its client clears the text and types it again.
BNext ==
  \/ Mount
  \/ \E code \in BlankTexts \cup {<<"a", ";">>} : DebouncedRender(code)
  \/ TimerFire
  \/ WindowElapsed
  \/ \E code \in BlankTexts \cup {<<"a", ";">>} : ForceRender(code)
  \/ SvcEngineLoaded
  \/ SvcEngineLoadFailed
  \/ SvcRun
  \/ ApplyResult

\* The controller rendering blank texts and a clean one.
BlankSpec == Init /\ [][BNext]_vars

\* The handle with overlapping render and validate calls.
SectionSpec == Init /\ [][SNext]_vars

\* The controller on the main-thread handle, rendering: the worker does
\* not move.
CtlSpec == Init /\ [][CNext]_vars

\* The controller on the main-thread handle, validating while renders are
\* in flight.
ValidateSpec == Init /\ [][VNext]_vars

\* The hook debouncing on the browser's timers.
TimerSpec == Init /\ [][TNext]_vars

\* The hook rendering without the debounce, remembering the mesh held at
\* each submission.
HeldSpec == Init /\ [][HNext]_vars

\* The hook with its status poll.
LoadingSpec == Init /\ [][LNext]_vars

\* The scheduling the main thread guarantees: the engine's load settles,
\* the interval timer ticks, ready promise reactions run.
LoadingLive ==
  /\ LoadingSpec
  /\ WF_vars(SvcEngineLoaded \/ SvcEngineLoadFailed)
  /\ WF_vars(IntervalTick)
  /\ WF_vars(SvcRun \/ ApplyResult)

\* The scheduling the worker's event loop guarantees: a ready promise
\* reaction runs, and the engine's load settles.
WorkerLive ==
  /\ Init
  /\ [][WNext]_vars
  /\ WF_vars(StartOp)
  /\ WF_vars(EngineLoaded \/ EngineLoadFailed)
  /\ WF_vars(\E op \in running : ResumeLoadFailed(op) \/ ResumeInit(op)
                              \/ ResumeRender(op) \/ ResumeValidate(op))

\* ------------------------------------------------------------------ worker claims
ResultTypes == {"render-result", "render-error", "validate-result"}
IsResult(m) == m.type \in ResultTypes
ResultIds == LET r == SelectSeq(posted, IsResult) IN [k \in 1..Len(r) |-> r[k].id]
Increasing(q) == \A a, b \in 1..Len(q) : a < b => q[a] < q[b]
Started(i) == \E k \in 1..Len(startedIds) : startedIds[k] = i
Running(i) == \E op \in running : op.id = i
Settled(i) == Started(i) /\ ~Running(i)
Count(i, types) == Cardinality({k \in 1..Len(posted) : posted[k].id = i /\ posted[k].type \in types})
Done(i) == Settled(i) /\ (received[i] # "init" => Count(i, ResultTypes) >= 1)
FailedResult(m) ==
  \/ m.type = "render-error"
  \/ m.type = "init-error"
  \/ m.type = "validate-result" /\ m.info = FALSE

\* C1: at most one operation is between its start and its completion; while
\* an operation is suspended, currentRequestId and the stderr collector are
\* still as that operation set them, and no scratch file has been written by
\* an operation received after it.
C1_OneOpInFlight ==
  /\ Cardinality(running) <= 1
  /\ \A op \in running :
       /\ op.type = "init" => currentRequestId = 0
       /\ op.type # "init" => currentRequestId = op.id /\ currentStderr = <<>>
       /\ wfs.input < op.id /\ wfs.output.by < op.id /\ wfs.validate < op.id

\* C1 witness: an operation is suspended on the engine load while a later
\* message has already been received and waits in the chain.
C1_Witness ==
  /\ initPromise = "pending"
  /\ running # {}
  /\ opQueue # <<>>

\* C2: operations are started in the order their messages were received,
\* and their result messages are posted in that order.
C2_Fifo ==
  /\ startedIds = [k \in 1..Len(startedIds) |-> k]
  /\ Increasing(ResultIds)

\* C2 witness: two results have been posted.
C2_Witness == Len(ResultIds) >= 2 /\ Len(startedIds) >= 2

\* C3: every received operation is eventually started and run to its
\* completion, whatever happened to the operations before it; the chain
\* never drops an operation and never stays rejected.
C3_QueueSurvives ==
  /\ [](skipped = {} /\ opQueueTail = "fulfilled")
  /\ []<>(\A i \in 1..Len(received) : Done(i))

\* C3 witness: an operation has failed and an operation received after it
\* has completed.
C3_Witness ==
  \E a, b \in 1..Len(posted) :
    /\ a < b
    /\ FailedResult(posted[a])
    /\ IsResult(posted[b])
    /\ posted[a].id < posted[b].id
    /\ Done(posted[b].id)

\* C7: no render's entry point is invoked while an /output.stl of an earlier
\* request exists, and every render-result carries the mesh decoded from
\* the artifact written during its own request.
C7_NoStaleArtifact ==
  /\ ~staleAtCall
  /\ \A k \in 1..Len(posted) :
       posted[k].type = "render-result" => posted[k].mesh = posted[k].id

\* C7 witness: a render succeeded after an earlier render had failed with
\* an artifact present (empty, undecodable or without geometry).
C7_Witness ==
  \E a, b \in 1..Len(posted) :
    /\ a < b
    /\ posted[a].type = "render-error"
    /\ posted[a].info \in {"Output file exists but is empty", "decoder threw",
                           "Generated STL has no geometry"}
    /\ posted[b].type = "render-result"

\* C9 (as claimed): whenever no render is executing, neither /input.scad
\* nor /output.stl exists.
C9_ScratchRemoved ==
  (\A op \in running : op.type # "render") => (wfs.input = 0 /\ wfs.output = Absent)

\* C10: a settled render has exactly one of render-result / render-error
\* with its id, a settled validate exactly one validate-result, and an
\* operation that has not settled has none.
C10_ExactlyOneResult ==
  \A i \in 1..Len(received) :
    LET n == IF Settled(i) THEN 1 ELSE 0
    IN  /\ received[i] = "render" =>
             /\ Count(i, {"render-result", "render-error"}) = n
             /\ Count(i, {"validate-result"}) = 0
        /\ received[i] = "validate" =>
             /\ Count(i, {"validate-result"}) = n
             /\ Count(i, {"render-result", "render-error"}) = 0

\* C10 witness: a render and a validate have both settled after the engine
\* failed to load.
C10_Witness ==
  /\ initPromise = "rejected"
  /\ \E i, j \in 1..Len(received) :
       /\ received[i] = "render" /\ Settled(i)
       /\ received[j] = "validate" /\ Settled(j)

\* ------------------------------------------------------------------ controller claims
CtlState == <<mesh, error, lintErrors, logs, isRendering>>

\* C4 (as claimed): when the result of a compile is handed to the
\* controller after a newer compile has been submitted, mesh, error,
\* diagnostics, logs and isRendering stay as they are.
C4_StaleResultIgnored ==
  [][(results # <<>> /\ results' = Tail(results) /\ Head(results).n < issued)
       => UNCHANGED CtlState]_vars

\* C5 (as claimed): once no compile is in flight, neither mesh nor error
\* comes from a compile that was superseded while it was in flight.
C5_LastIssuedWins ==
  (inflight = <<>> /\ results = <<>>) => (mesh \notin superseded /\ error.n \notin superseded)

\* C6 (as claimed): when a debounce window has elapsed and the text of its
\* last call is non-blank and lint-clean, the timer has submitted exactly
\* one compile, of that text.
C6_OneCompilePerWindow ==
  (~winOpen /\ winLast # NoTimer /\ ~IsBlank(winLast) /\ ~HasLintErrors(winLast))
    => winCompiles = <<winLast>>

\* C8 (as claimed): a compile whose entry point was invoked succeeds if
\* and only if the artifact exists, is non-empty and decodes to at least
\* one triangle.
C8_SuccessIffArtifact ==
  \A k \in 1..Len(results) :
    results[k].called => (results[k].outcome = "mesh" <=> results[k].good)

\* C8 in the worker: every behaviour of the entry point leads to a
\* render-result exactly when it left such an artifact.
C8_WorkerSuccessIffArtifact ==
  \A op \in running, thrown \in Thrown, art \in ArtKinds, lines \in Emissions :
    (op.type = "render" /\ initPromise = "resolved")
      => (RenderEffect(op, TRUE, thrown, art, lines).ok <=> art = "good")

\* ------------------------------------------------------------------ engine session claims
\* C11: createOpenSCAD of the main-thread handle is invoked at most once,
\* whoever calls initOpenSCAD (the preload, render, validate) and whenever
\* (before, during, after the load, and after a failed load).
C11_FactoryOnce == svcFactoryCalls <= 1

\* The load has failed, the first compile has run to its end on the failed
\* load, a second compile was issued after that, and no second load was
\* started.
C11_Witness ==
  /\ svcInitPromise = "rejected"
  /\ issued = 2
  /\ results = <<>>
  /\ Len(inflight) = 1
  /\ inflight[1].n = 2
  /\ inflight[1].op = "render"
  /\ svcFactoryCalls = 1

\* C11 in the worker: createOpenSCAD is invoked at most once, whatever
\* 'init', 'render' and 'validate' messages arrive.
C11_WorkerFactoryOnce == factoryCalls <= 1

\* The results in the queue that come from the engine handle.
FromHandle(r) == r.op = "render" \/ r.called
IsFailure(r) == r.outcome \in {"error", "scadError", "invalid"}
StatusSteps == {<<"idle", "loading">>, <<"loading", "ready">>, <<"loading", "error">>}

\* C12: loadingProgress only moves idle -> loading -> ready or
\* idle -> loading -> error, and once it is error every compile and every
\* validation the handle completes is a failure.
C12_StatusOneWay ==
  /\ [][loadingProgress' # loadingProgress
          => <<loadingProgress, loadingProgress'>> \in StatusSteps]_vars
  /\ [](loadingProgress = "error"
          => \A k \in 1..Len(results) : FromHandle(results[k]) => IsFailure(results[k]))

\* The load has failed, and a compile and a validation issued afterwards
\* have both been completed by the handle.
C12_Witness ==
  /\ loadingProgress = "error"
  /\ error = [n |-> 1, msg |-> "load failed", lint |-> <<>>]
  /\ results # <<>>
  /\ Head(results).op = "validate"
  /\ Head(results).called

\* ------------------------------------------------------------------ lint gate claims
ErrorSeverity(e) == e.severity = "error"
HasErrorSeverity(code) == SelectSeq(lintResult(code), ErrorSeverity) # <<>>
\* render(code) is run, by the caller or by the debounce timer.
RenderRuns(code) == ForceRender(code) \/ (timeoutRef = code /\ TimerFire)

\* C13: when render runs on a text with an error-severity diagnostic, no
\* compile is submitted, error is the formatted lint errors, lintErrors are
\* the linter's diagnostics and isRendering is false.
C13_LintErrorsBlock ==
  [][\A code \in Texts :
       (HasErrorSeverity(code) /\ RenderRuns(code))
         => /\ issued' = issued
            /\ inflight' = inflight
            /\ error' = formatLintErrors(SelectSeq(lintResult(code), ErrorSeverity))
            /\ lintErrors' = lintResult(code)
            /\ isRendering' = FALSE]_vars

\* The debounce timer has rendered the text with the unclosed bracket.
C13_Witness ==
  /\ lastRendered = <<"(">>
  /\ lastCodeRef = <<"(">>
  /\ timeoutRef = NoTimer
  /\ ~winOpen
  /\ error = formatLintErrors(SelectSeq(lintResult(<<"(">>), ErrorSeverity))
  /\ lintErrors # <<>>
  /\ ~isRendering

\* C14: when render runs on a non-blank text without error-severity
\* diagnostic, it sets isRendering and submits exactly one compile, of that
\* text.
C14_WarningsDoNotBlock ==
  [][\A code \in Texts :
       (~IsBlank(code) /\ ~HasErrorSeverity(code) /\ RenderRuns(code))
         => /\ isRendering'
            /\ issued' = issued + 1
            /\ inflight' = Append(inflight, [n |-> issued + 1, op |-> "render", code |-> code])]_vars

\* A compile of the text with the warning is in flight, and the warning is
\* among the diagnostics.
C14_Witness ==
  /\ isRendering
  /\ \E k \in 1..Len(inflight) : inflight[k].code = <<"a", "=", "a", "a">>
  /\ lintErrors = lintResult(<<"a", "=", "a", "a">>)
  /\ lintErrors # <<>>
  /\ ~HasErrorSeverity(<<"a", "=", "a", "a">>)

\* ------------------------------------------------------------------ debounce claims
\* C15 (as claimed): when the debounce timer fires with the text render
\* last ran on, nothing is linted or compiled and the controller's state
\* stays as it is.
C15_TimerFireGuard ==
  [][(TimerFire /\ timeoutRef = lastRendered)
       => UNCHANGED <<mesh, error, lintErrors, logs, isRendering, issued, inflight>>]_vars

\* ------------------------------------------------------------------ worker log claims
IsStderr(m) == m.type = "stderr"
IsRenderOutcome(m) == m.type \in {"render-result", "render-error"}
\* The lines printed on the error channel during the step that posted
\* lastPosted[k], before that message, as lines of request id.
EmittedBefore(k, id) ==
  LET e == SelectSeq(SubSeq(lastPosted, 1, k - 1), IsStderr)
  IN  [j \in 1..Len(e) |-> [req |-> id, kind |-> e[j].info]]

\* C16: the logs of a render-result or render-error of request X are the
\* lines printed on the error channel while X was executing, in the order
\* printed, and nothing else.
C16_LogIsOwnLines ==
  \A k \in 1..Len(lastPosted) :
    IsRenderOutcome(lastPosted[k])
      => lastPosted[k].logs = EmittedBefore(k, lastPosted[k].id)

\* Request 1 failed with lines on the error channel, and request 2 has
\* just succeeded with a line of its own.
C16_Witness ==
  /\ \E k \in 1..Len(posted) :
       posted[k].type = "render-error" /\ posted[k].id = 1 /\ posted[k].info = "stderr"
  /\ \E k \in 1..Len(lastPosted) :
       /\ lastPosted[k].type = "render-result"
       /\ lastPosted[k].id = 2
       /\ lastPosted[k].logs # <<>>

\* ------------------------------------------------------------------ validation claims
\* C17 (as claimed): the worker's validate-result has valid = true exactly
\* when the entry point returned or threw an exit status of 0 and no line
\* at all was printed on the error channel during the call.
C17_ValidIffCleanExit ==
  \A op \in running, thrown \in Thrown, lines \in Emissions :
    (op.type = "validate" /\ initPromise = "resolved")
      => LET posts == ValidateEffect(op, TRUE, thrown, lines).posts
         IN  posts[Len(posts)].info <=> (thrown \in {"ret", "exit0"} /\ lines = <<>>)

\* The caller of validate receives its result.
ValidateReturns == results # <<>> /\ Head(results).op = "validate" /\ results' = Tail(results)

\* C18: a call of validate, and the delivery of its result, leave mesh,
\* error, lintErrors, logs and isRendering as they are, also while
\* compiles are in flight.
C18_ValidateFrame ==
  [][((\E code \in Texts : Validate(code)) \/ ValidateReturns) => UNCHANGED CtlState]_vars

\* validate was called while a compile was in flight: the handle has
\* completed the compile and, after it, the validation, and neither caller
\* has continued yet.
C18_Witness ==
  /\ Len(results) = 2
  /\ results[1].op = "render"
  /\ results[2].op = "validate"
  /\ results[2].called
  /\ isRendering

\* C19: validate answers blank text with valid = true and no errors, and
\* text with error-severity diagnostics with valid = false and one entry
\* per such diagnostic, without calling the engine handle; for any other
\* text it calls validateScadCode exactly once.
C19_ValidateGate ==
  [][\A code \in Texts :
       Validate(code)
         => IF IsBlank(code)
              THEN /\ results' = Append(results, ValidateResult(0, "valid", <<>>, FALSE))
                   /\ UNCHANGED <<inflight, validated>>
            ELSE IF HasErrorSeverity(code)
              THEN /\ Len(results') = Len(results) + 1
                   /\ results'[Len(results')].outcome = "invalid"
                   /\ ~results'[Len(results')].called
                   /\ Len(results'[Len(results')].logs)
                        = Len(SelectSeq(lintResult(code), ErrorSeverity))
                   /\ UNCHANGED <<inflight, validated>>
            ELSE /\ inflight' = Append(inflight,
                                       [n |-> validated + 1, op |-> "validate", code |-> code])
                 /\ validated' = validated + 1
                 /\ UNCHANGED results]_vars

\* validate has answered the text with the unclosed bracket.
C19_Witness ==
  /\ Len(results) = 1
  /\ results[1].op = "validate"
  /\ results[1].outcome = "invalid"
  /\ ~results[1].called
  /\ Len(results[1].logs) = 1
  /\ inflight = <<>>

\* C20: two validations in a row during which the engine does the same
\* (the same text on an engine nothing else has touched) post the same
\* valid and the same errors.
C20_ValidateIdempotent ==
  (Len(validations) = 2 /\ validations[1].beh = validations[2].beh)
    => /\ validations[1].valid = validations[2].valid
       /\ validations[1].errors = validations[2].errors

\* Two validations in a row during which the engine printed a line.
C20_Witness ==
  /\ Len(validations) = 2
  /\ validations[1].beh = validations[2].beh
  /\ validations[2].errors # <<>>
  /\ validations[2].beh[1]

\* The caller of the oldest settled call continues in this step.
Continues == results # <<>> /\ results' = Tail(results)

\* C21: when the caller of a compile that returned a mesh continues, the
\* controller has that mesh, no error, no diagnostics, isRendering = FALSE
\* and no line of an earlier compile's log.
C21_SuccessSnapshot ==
  [][(Continues /\ Head(results).op = "render" /\ Head(results).outcome = "mesh")
       => /\ mesh' = Head(results).n
          /\ error' = NoError
          /\ lintErrors' = <<>>
          /\ ~isRendering'
          /\ \A k \in 1..Len(logs') : logs'[k].req = Head(results).n]_vars

\* The second compile has returned a mesh and its caller is about to
\* continue, while the log and the entries of the failed first one are stored.
C21_Witness ==
  /\ results # <<>>
  /\ Head(results).op = "render"
  /\ Head(results).outcome = "mesh"
  /\ Head(results).n = 2
  /\ logs # <<>>
  /\ logs[1].req = 1
  /\ error.n = 1
  /\ lintErrors # <<>>

\* The texts render submits a compile for (part_010 line 79-97).
Compilable == {t \in Texts : ~IsBlank(t) /\ ~HasErrorSeverity(t)}

\* C22: when the caller of a compile that failed with an engine log
\* continues, the controller has the failure message, that log,
\* isRendering = FALSE, and as diagnostics those of the linter for the text
\* T of the compile followed by the entries parsed from that log. T is one
\* of the texts a compile is submitted for.
C22_FailureSnapshot ==
  [][(Continues /\ Head(results).op = "render" /\ Head(results).outcome = "scadError"
        /\ Head(results).logs # <<>>)
       => /\ error' = [n |-> Head(results).n, msg |-> Head(results).msg, lint |-> <<>>]
          /\ logs' = Head(results).logs
          /\ ~isRendering'
          /\ \E T \in Compilable :
               lintErrors' = lintResult(T) \o parseOpenSCADErrors(Head(results).logs)]_vars

\* C23: render of a blank text leaves mesh = null and error = null and
\* calls nothing of the engine handle: no compile, no validation, no load,
\* no access to the filesystem.
C23_BlankRender ==
  [][\A code \in BlankTexts :
       RenderRuns(code)
         => /\ mesh' = 0
            /\ error' = NoError
            /\ UNCHANGED <<issued, validated, inflight, results, sfs, openscadInstance,
                           svcInitPromise, svcFactoryCalls, loadingProgress>>]_vars

\* The only compile failed with a log, and the blank text rendered after it
\* has cleared the error.
C23_Witness ==
  /\ lastRendered \in BlankTexts
  /\ issued = 1
  /\ inflight = <<>>
  /\ results = <<>>
  /\ logs # <<>>
  /\ error = NoError
  /\ mesh = 0

\* The scratch input file of a call holds what that call wrote.
OwnScratch(s) ==
  IF s.id.op = "render" THEN sfs.input = s.id.n ELSE sfs.validate = s.id.n

\* C24: the engine sections of overlapping calls of the handle do not
\* interleave: at most one call is inside its section, printErr is that
\* call's closure, and the scratch input is the one that call wrote.
C24_SectionsDoNotInterleave ==
  /\ Cardinality(sections) <= 1
  /\ \A s \in sections :
       /\ printErr = s.id
       /\ s.pc # "swapped" => OwnScratch(s)

\* Two calls were suspended on the load together: the first has settled and
\* its caller has not continued yet, the second is past its callMain.
C24_Witness ==
  /\ Len(results) = 1
  /\ results[1].called
  /\ \E s \in sections : s.pc = "called" /\ s.id # CallId(results[1])

\* ---- what the linter is expected to see in a text of brackets
\* Brackets properly nested, by a stack of the open ones.
RECURSIVE NestedFrom(_, _, _)
NestedFrom(t, k, open) ==
  IF k > Len(t) THEN open = <<>>
  ELSE IF t[k] \in Openers THEN NestedFrom(t, k + 1, Append(open, t[k]))
  ELSE IF t[k] \in Closers
    THEN /\ open # <<>>
         /\ open[Len(open)] = closingBrackets(t[k])
         /\ NestedFrom(t, k + 1, SubSeq(open, 1, Len(open) - 1))
  ELSE NestedFrom(t, k + 1, open)
Nested(t) == NestedFrom(t, 1, <<>>)

Without(t, k) == SubSeq(t, 1, k - 1) \o SubSeq(t, k + 1, Len(t))

\* The character at k is the only defect of t: t is properly nested without
\* it, and without no other single character.
OnlyDefect(t, k) ==
  /\ Nested(Without(t, k))
  /\ \A j \in 1..Len(t) : j # k => ~Nested(Without(t, j))

LineOf(t, k) == 1 + Cardinality({j \in 1..(k - 1) : t[j] = NL})
ColumnOf(t, k) == k - (CHOOSE j \in 0..(k - 1) :
                         /\ j = 0 \/ t[j] = NL
                         /\ \A i \in (j + 1)..(k - 1) : t[i] # NL)

ErrorsOf(out) == SelectSeq(out.errors, ErrorSeverity)

\* C25: for a text whose only defect is one stray closing bracket, the
\* linter reports exactly one error, at the line and column of that bracket.
C25_StrayCloser ==
  lintOut.called =>
    \A k \in 1..Len(lintInput) :
      (lintInput[k] \in Closers /\ OnlyDefect(lintInput, k))
        => /\ Len(ErrorsOf(lintOut)) = 1
           /\ ErrorsOf(lintOut)[1].line = LineOf(lintInput, k)
           /\ ErrorsOf(lintOut)[1].column = ColumnOf(lintInput, k)

\* C26: for a text whose only defect is one opening bracket that is never
\* closed, the linter reports exactly one error, at the line and column of
\* that bracket and naming it.
C26_UnclosedOpener ==
  lintOut.called =>
    \A k \in 1..Len(lintInput) :
      (lintInput[k] \in Openers /\ OnlyDefect(lintInput, k))
        => /\ Len(ErrorsOf(lintOut)) = 1
           /\ ErrorsOf(lintOut)[1].line = LineOf(lintInput, k)
           /\ ErrorsOf(lintOut)[1].column = ColumnOf(lintInput, k)
           /\ ErrorsOf(lintOut)[1].message
                = <<"Unclosed", lintInput[k], matchingBrackets(lintInput[k])>>

\* ---- where a character of a text lies: in code, in a line comment, in a
\* block comment, in a string literal ("esc": right after a backslash in
\* one). A string literal ends at its closing quote or with its line.
RECURSIVE ModeAt(_, _, _, _)
ModeAt(t, k, i, mode) ==
  IF i > k THEN "code"
  ELSE IF i = k /\ mode # "code" THEN mode
  ELSE
    LET ch == t[i]
        nx == IF i < Len(t) THEN t[i + 1] ELSE "undefined"
    IN  IF mode = "code"
          THEN IF ch = "/" /\ nx = "/" THEN ModeAt(t, k, i + 2, "line")
               ELSE IF ch = "/" /\ nx = "*" THEN ModeAt(t, k, i + 2, "block")
               ELSE IF i = k THEN "code"
               ELSE IF ch = "\"" THEN ModeAt(t, k, i + 1, "str")
               ELSE ModeAt(t, k, i + 1, "code")
        ELSE IF mode = "line"
          THEN ModeAt(t, k, i + 1, IF ch = NL THEN "code" ELSE "line")
        ELSE IF mode = "block"
          THEN IF ch = "*" /\ nx = "/" THEN ModeAt(t, k, i + 2, "code")
               ELSE ModeAt(t, k, i + 1, "block")
        ELSE IF mode = "esc" THEN ModeAt(t, k, i + 1, IF ch = NL THEN "code" ELSE "str")
        ELSE IF ch = "\\" THEN ModeAt(t, k, i + 1, "esc")
        ELSE ModeAt(t, k, i + 1, IF ch \in {"\"", NL} THEN "code" ELSE "str")

InCommentOrString(t, k) == ModeAt(t, k, 1, "code") # "code"

\* Every string literal is closed on its line.
StringsClosed(t) ==
  LET u == Append(t, NL)
  IN  \A k \in 1..Len(u) : u[k] = NL => ModeAt(u, k, 1, "code") \notin {"str", "esc"}

\* Backslashes occur in string literals and comments only.
EscapesInStrings(t) == \A k \in 1..Len(t) : t[k] = "\\" => InCommentOrString(t, k)

IsBracketDiag(e) == e.message[1] \in {"Unexpected closing", "Mismatched brackets", "Unclosed"}
BracketDiags(es) == SelectSeq(es, IsBracketDiag)

\* The text with its k-th character replaced by a word character.
Neutralised(t, k) == [t EXCEPT ![k] = "a"]

\* C27: a bracket inside a line comment, a block comment or a string
\* literal is neither pushed nor matched nor reported: the bracket
\* diagnostics are those of the text with a word character in its place.
\* Checked on the texts whose string literals are closed and that have no
\* backslash outside a string or comment.
C27_BracketsInCommentsIgnored ==
  (lintOut.called /\ EscapesInStrings(lintInput) /\ StringsClosed(lintInput)) =>
    \A k \in 1..Len(lintInput) :
      (lintInput[k] \in Openers \cup Closers /\ InCommentOrString(lintInput, k))
        => BracketDiags(lintOut.errors)
             = BracketDiags(lintOpenSCAD(Neutralised(lintInput, k)))

\* C28: every mesh the decoder returns has as many normals as vertices, and
\* the number of vertices is a multiple of 9.
C28_MeshShape ==
  stlOut.status = "mesh" =>
    /\ stlOut.normals = stlOut.vertices
    /\ stlOut.vertices % 9 = 0

\* The lines of a text artifact of t triangles: for each, 'facet normal',
\* 'outer loop', three times 'vertex', 'endloop', 'endfacet'.
RECURSIVE FacetLines(_)
FacetLines(t) ==
  IF t = 0 THEN <<>>
  ELSE <<"facet", "other", "vertex", "vertex", "vertex", "other", "other">> \o FacetLines(t - 1)

TextArtifacts(t) ==
  {TextBuffer(FacetLines(t), n, w) : n \in {m \in TextLens : MinTextBytes(FacetLines(t)) <= m},
                                     w \in TextWords}

\* C29: a complete binary artifact of T triangles decodes, on the binary
\* path, to 9*T vertices and 9*T normals, and every text artifact of the
\* same T triangles decodes, on the text path, to the same count.
C29_RoundTrip ==
  (stlOut.status # "not called" /\ stlInput.fmt = "binary"
     /\ stlInput.len = 84 + 50 * stlInput.count)
    => /\ stlOut = STLMesh("binary", 9 * stlInput.count, 9 * stlInput.count)
       /\ \A b \in TextArtifacts(stlInput.count) :
            parseSTL(b) = STLMesh("ascii", 9 * stlInput.count, 9 * stlInput.count)

\* C30: the worker touches the engine's filesystem and entry point only
\* once the load has succeeded. A started render or validate has started
\* the load or found it started; it settles either after the load
\* succeeded, or after it failed and then without touching the filesystem.
C30_EngineUsedWhenReady ==
  [][/\ wfs' # wfs => (openscadRaw /\ initPromise = "resolved")
     /\ \A op \in running \ running' :
          op.type # "init"
            => \/ openscadRaw /\ initPromise = "resolved"
               \/ initPromise = "rejected" /\ wfs' = wfs
     /\ \A op \in running' : op.type # "init" => initPromise' # "null"]_vars

\* A render received before anything was loaded has started the load,
\* waited for it and then written the filesystem.
C30_Witness ==
  /\ received = <<"render">>
  /\ factoryCalls = 1
  /\ Len(posted) = 2
  /\ posted[1].type = "ready"
  /\ posted[2].type \in {"render-result", "render-error"}
  /\ wfs.input # 0

\* The same for the main-thread handle: a call is inside its engine section
\* only after the load has succeeded.
C30_HandleUsedWhenReady ==
  sections # {} => (openscadInstance /\ svcInitPromise = "resolved")

\* C31: a call of the handle that leaves its engine section, by returning
\* or by throwing, leaves printErr as the hook that was installed when the
\* call replaced it.
C31_HookRestored ==
  [][\A s \in sections :
       (\A t \in sections' : t.id # s.id) => printErr' = s.orig]_vars

C33_NotStuckRendering ==
  (timeoutRef = NoTimer /\ InFlightCompiles = {}) => ~isRendering

\* C34: while a compile the controller issued has not settled, isRendering
\* is true.
C34_RenderingWhileInFlight ==
  (\E k \in 1..Len(inflight) : IsRenderCall(inflight[k])) => isRendering

\* The caller of a compile that failed continues (the catch branch of
\* render, part_010 line 108-123).
FailureApplied ==
  /\ results # <<>>
  /\ results' = Tail(results)
  /\ Head(results).op = "render"
  /\ Head(results).outcome # "mesh"

\* C35: when a compile ends in failure the mesh is the one the controller
\* held when that compile was issued, and error is the failure's message.
C35_FailureKeepsMesh ==
  [][FailureApplied =>
       /\ mesh' = held[Head(results).n]
       /\ error' = [n |-> Head(results).n, msg |-> Head(results).msg, lint |-> <<>>]]_vars

\* The step in which the failure arrives leaves the mesh as it finds it.
C35_FailureStepKeepsMesh ==
  [][FailureApplied => mesh' = mesh]_vars

\* C36: currentRequestId is null while no render or validate is executing
\* and the id of the executing one otherwise, and every 'stderr' message
\* carries the id of the request during whose execution it was posted.
C36_RequestIdOfRunning ==
  /\ \A op \in running : op.type # "init" => currentRequestId = op.id
  /\ (\A op \in running : op.type = "init") => currentRequestId = 0
  /\ \A k \in 1..Len(lastPosted) :
       IsStderr(lastPosted[k])
         => /\ lastPosted[k].id # 0
            /\ lastPosted[k].id = lastPosted[Len(lastPosted)].id
            /\ IsResult(lastPosted[Len(lastPosted)])

\* Request 1 has completed, request 2 has just printed a line and
\* completed, and nothing is executing.
C36_Witness ==
  /\ \E k \in 1..Len(posted) : IsResult(posted[k]) /\ posted[k].id = 1
  /\ \E k \in 1..Len(lastPosted) : IsStderr(lastPosted[k]) /\ lastPosted[k].id = 2
  /\ running = {}
  /\ currentRequestId = 0

\* C37: at most one debounce timer is pending, and a pending timer will
\* render the text of the most recent debounced render call; the ref holds
\* the id of that timer.
C37_OneTimer ==
  /\ Cardinality(timers) <= 1
  /\ \A t \in timers : t.code = winLast /\ t.ref /\ timeoutRef = t.code
  /\ timers = {} => timeoutRef = NoTimer

\* A timer was set, replaced by a timer for another text before it fired,
\* and that one is pending while a compile of an earlier window is in flight.
C37_Witness ==
  /\ timers = {[code |-> <<"a", ";">>, ref |-> TRUE]}
  /\ lastRendered # NoTimer
  /\ lastRendered # <<"a", ";">>
  /\ inflight # <<>>

\* ---- brackets properly nested and balanced, by the pairs themselves
BracketPairs == {<<"(", ")">>, <<"[", "]">>, <<"{", "}">>}
RECURSIVE BalancedFrom(_, _, _)
BalancedFrom(t, k, open) ==
  IF k > Len(t) THEN open = <<>>
  ELSE IF t[k] \in Openers THEN BalancedFrom(t, k + 1, <<t[k]>> \o open)
  ELSE IF t[k] \in Closers
    THEN /\ open # <<>>
         /\ <<Head(open), t[k]>> \in BracketPairs
         /\ BalancedFrom(t, k + 1, Tail(open))
  ELSE BalancedFrom(t, k + 1, open)
Balanced(t) == BalancedFrom(t, 1, <<>>)

OnlyBrackets(t) == \A k \in 1..Len(t) : t[k] \in Openers \cup Closers \cup {NL}

\* The brackets of t an error of the linter is reported at.
BracketsAt(t, e) ==
  {k \in 1..Len(t) : /\ t[k] \in Openers \cup Closers
                     /\ LineOf(t, k) = e.line
                     /\ ColumnOf(t, k) = e.column}

\* C38: for a text of brackets and line breaks the linter's result is valid
\* (it has no entry of severity error) exactly when the brackets are
\* properly nested and balanced, every entry is an error reported at a
\* bracket, and no bracket has more than one entry.
C38_ValidIffBalanced ==
  (lintOut.called /\ OnlyBrackets(lintInput)) =>
    /\ (ErrorsOf(lintOut) = <<>>) <=> Balanced(lintInput)
    /\ \A i \in 1..Len(lintOut.errors) :
         /\ lintOut.errors[i].severity = "error"
         /\ Cardinality(BracketsAt(lintInput, lintOut.errors[i])) = 1
         /\ \A j \in 1..Len(lintOut.errors) :
              i # j => BracketsAt(lintInput, lintOut.errors[i])
                         # BracketsAt(lintInput, lintOut.errors[j])

\* A text over two lines with two errors, each at a bracket of its own:
\* the first ']' does not close the '(', the second one closes nothing.
C38_Witness ==
  /\ lintOut.called
  /\ lintInput = <<"(", NL, "]", "]">>
  /\ Len(lintOut.errors) = 2

\* C39: the worker posts 'ready' at most once, and every render-result is
\* posted after 'ready'.
C39_ReadyOnceAndFirst ==
  /\ Cardinality({k \in 1..Len(posted) : posted[k].type = "ready"}) <= 1
  /\ \A k \in 1..Len(posted) :
       posted[k].type = "render-result"
         => \E j \in 1..(k - 1) : posted[j].type = "ready"

\* Two renders have succeeded, the first of them having started the load.
C39_Witness ==
  /\ Len(posted) = 3
  /\ posted[1].type = "ready"
  /\ posted[2].type = "render-result"
  /\ posted[3].type = "render-result"
  /\ factoryCalls = 1

====
